---- MODULE Spec2Model ----
(***************************************************************************)
(* fridge-kiosk plugin runtime: the plugin loader (backend/plugin_loader), *)
(* the request dispatcher (backend/run.py do_GET), the per-plugin caches   *)
(* and the google-photos error/backoff state.                              *)
(***************************************************************************)
EXTENDS Integers, Sequences, FiniteSets, TLC

VARIABLES
    \* ---- backend/plugin_loader.py load_plugins ----
    ld_profile,     \* what each entry of the plugins directory looks like
    ld_listing,     \* os.listdir(plugins_dir), in the order the scan visits it
    ld_i,           \* index of the next entry of ld_listing the for loop visits
    ld_plugins,     \* the list `plugins` being built
    ld_pc,          \* "scanning" | "returned"
    configuring,    \* backend/run.py load_plugins(config) while main() runs it: where
                    \* its loop stands, and the init(config) calls it has made
    workers,        \* google-photos requests running side by side, each inside
                    \* record_api_error; whether error_state.json is open for writing
    import_sessions, \* google-picker: _import_sessions of a module kept in memory, the
                    \* sessions handed out and not yet completed, the last answer
    \* ---- backend/run.py: main, load_plugins, KioskHTTPRequestHandler.do_GET ----
    fs,             \* the plugin unit found at get_plugin_path(name), per directory name
    enabledPlugins, \* config['enabledPlugins']
    plugins,        \* the table load_plugins(config) returned
    srv_pc,         \* "boot" | "serving" | "responded"
    served,         \* requests handled so far
    response,       \* what do_GET did for the request being handled
    server_plugins, \* the attribute httpd.plugins: <<>> while unset, or <<table>>
    handler,        \* the KioskHTTPRequestHandler of the request in progress
    rendered,       \* the table the last finished request held, and the reloaded one
                    \* that was in place when it started
    loads,          \* calls of load_plugins(config) completed so far
    discovered,     \* the (plugin, endpoint) pairs whose handler main.py defined when
                    \* load_plugins last ran
    \* ---- plugins: caches and error state ----
    now,                  \* time.time(), in whole seconds
    ticks,                \* how often the clock has been advanced
    n_calls,              \* plugin functions called so far
    photos_cache_file,    \* google-photos cache/photos_cache.json: <<>> or <<contents>>
    selected_photos_file, \* google-picker cache/selected_photos.json: <<>> or <<contents>>
    nature_cache_file,    \* random-nature-photos data/photo_cache.json: <<>> or <<contents>>
    weather_cache,        \* weather-forecast: the module global weather_cache
    error_state_file,     \* google-photos cache/error_state.json: <<>> or <<contents>>
    stored,               \* per cache, the value last stored and when: <<>> or <<[at, value]>>
    cold,                 \* per cache, TRUE from a process restart until its first read
    cache_read,           \* what the last cache read returned, and what the cache had
                          \* (stored) before it; cleared by any other step
    n_failures,           \* record_api_error calls since the error state was last clean
    api_reply             \* what the last plugin handler call answered (cleared by any other step)

ldVars == <<ld_profile, ld_listing, ld_i, ld_plugins, ld_pc, configuring, workers,
           import_sessions>>
srvVars == <<fs, enabledPlugins, plugins, srv_pc, served, response,
            server_plugins, handler, rendered, loads, discovered>>
plugVars == <<now, ticks, n_calls, photos_cache_file, selected_photos_file, nature_cache_file,
              weather_cache, error_state_file, stored, cold, cache_read, n_failures, api_reply>>

vars == <<ld_profile, ld_listing, ld_i, ld_plugins, ld_pc, configuring, workers,
          import_sessions,
          fs, enabledPlugins, plugins, srv_pc, served, response,
          server_plugins, handler, rendered, loads, discovered,
          now, ticks, n_calls, photos_cache_file, selected_photos_file, nature_cache_file,
          weather_cache, error_state_file, stored, cold, cache_read, n_failures, api_reply>>

Min(a, b) == IF a < b THEN a ELSE b

Range(s) == {s[i] : i \in DOMAIN s}

\* all orders in which a directory listing can enumerate the set S
Perms(S) == {s \in [1..Cardinality(S) -> S] : \A i, j \in 1..Cardinality(S) : i # j => s[i] # s[j]}

(***************************************************************************)
(* Loader: backend/plugin_loader.py                                        *)
(***************************************************************************)

\* names found in the plugins directory
LoaderItems == {"date-time", "sensors", "weather-forecast"}

\* setup_returns: what the module's setup(app) returns when it does not raise
HealthyEntry == [is_dir |-> TRUE, hidden |-> FALSE, enabled |-> TRUE, has_init |-> TRUE,
                 exec_ok |-> TRUE, has_setup |-> TRUE, setup_raises |-> FALSE,
                 setup_returns |-> "None"]

\* the shapes a directory entry can have
LoaderProfiles ==
    { HealthyEntry,
      [HealthyEntry EXCEPT !.has_setup = FALSE],
      [HealthyEntry EXCEPT !.setup_raises = TRUE],
      [HealthyEntry EXCEPT !.setup_returns = "False"],
      [HealthyEntry EXCEPT !.exec_ok = FALSE],
      [HealthyEntry EXCEPT !.has_init = FALSE],
      [HealthyEntry EXCEPT !.enabled = FALSE],
      [HealthyEntry EXCEPT !.hidden = TRUE],
      [HealthyEntry EXCEPT !.is_dir = FALSE] }

\* load_plugin_module: None when __init__.py is missing or executing the module raises
load_plugin_module(p) ==
    IF ~p.has_init THEN "None"
    ELSE IF ~p.exec_ok THEN "None"
    ELSE "module"

\* Plugin.setup: True / False (the hook raised) / None (no hook); what the hook
\* returns is not looked at (`self.module.setup(app)` is a statement of its own)
Plugin_setup(p) ==
    IF p.has_setup
    THEN (IF p.setup_raises THEN "False" ELSE "True")
    ELSE "None"

setup_failed_truthy(setup_result) == setup_result # "True"

\* `if setup_result is False`
setup_failed(setup_result) == setup_result = "False"

\* one iteration of the for loop of load_plugins over directory entry `item`
load_plugins_item(item, p, loaded) ==
    IF ~p.is_dir \/ p.hidden THEN loaded
    ELSE IF ~p.enabled THEN loaded
    ELSE IF load_plugin_module(p) = "None" THEN loaded
    ELSE IF setup_failed(Plugin_setup(p)) THEN loaded
    ELSE Append(loaded, item)

\* run.py's load_plugins(config) is not running
NotConfiguring ==
    [pc |-> "idle", todo |-> {}, plugin_name |-> "", plugin_config |-> "{}",
     plugins |-> <<>>, init_calls |-> <<>>]

Workers == {1, 2}

\* no request is inside record_api_error
NoWorkers ==
    [truncated |-> FALSE, read_empty |-> FALSE,
     req |-> [w \in Workers |-> [pc |-> "idle", error_state |-> <<>>]]]

\* no import session has been started
NoImportSessions == [module |-> {}, started |-> {}, reply |-> <<>>]

load_plugins_loop ==
    /\ ld_pc = "scanning"
    /\ ld_i <= Len(ld_listing)
    /\ ld_plugins' = load_plugins_item(ld_listing[ld_i], ld_profile[ld_listing[ld_i]], ld_plugins)
    /\ ld_i' = ld_i + 1
    /\ UNCHANGED <<ld_profile, ld_listing, ld_pc, configuring, workers, import_sessions>>
    /\ UNCHANGED srvVars
    /\ UNCHANGED plugVars

load_plugins_return ==
    /\ ld_pc = "scanning"
    /\ ld_i > Len(ld_listing)
    /\ ld_pc' = "returned"
    /\ UNCHANGED <<ld_profile, ld_listing, ld_i, ld_plugins, configuring, workers,
                   import_sessions>>
    /\ UNCHANGED srvVars
    /\ UNCHANGED plugVars

LoaderInit ==
    /\ ld_profile \in [LoaderItems -> LoaderProfiles]
    /\ ld_listing \in Perms(LoaderItems)
    /\ ld_i = 1
    /\ ld_plugins = <<>>
    /\ ld_pc = "scanning"
    /\ configuring = NotConfiguring
    /\ workers = NoWorkers
    /\ import_sessions = NoImportSessions

\* the loader is not running
LoaderIdle ==
    /\ ld_profile = [n \in LoaderItems |-> HealthyEntry]
    /\ ld_listing = <<>>
    /\ ld_i = 1
    /\ ld_plugins = <<>>
    /\ ld_pc = "returned"
    /\ configuring = NotConfiguring
    /\ workers = NoWorkers
    /\ import_sessions = NoImportSessions

LoaderNext == load_plugins_loop \/ load_plugins_return

(***************************************************************************)
(* Dispatcher: backend/run.py                                              *)
(***************************************************************************)

\* requests handled in one run of the model
MaxRequests == 2

\* plugin directory names that the plugins directory may hold
PluginNames == {"weather-forecast", "google-picker"}

\* plugin names a request can carry: the above, a name with no directory, the empty name
RequestNames == PluginNames \cup {"doesNotExist", ""}

\* handler kinds: what getattr(plugin_module, "api_<endpoint>") is
\*   "none"          no such attribute
\*   "zero"          def api_x():
\*   "one"           def api_x(query):
\*   "one_default"   def api_x(query=None):
\*   "uninspectable" a callable inspect.signature() cannot inspect
WeatherHandlers == [data |-> "zero", day |-> "one", albums |-> "none"]
PickerHandlers  == [data |-> "none", day |-> "none", albums |-> "one_default"]
NativeHandlers  == [data |-> "uninspectable", day |-> "zero", albums |-> "none"]
NoHandlers      == [data |-> "none", day |-> "none", albums |-> "none"]

\* endpoint names a request can carry ("nope" is defined by no plugin)
RequestEndpoints == {"data", "day", "albums", "nope"}

\* nothing at get_plugin_path(name)
\* config:   "absent" (no config.json) | "ok" | "unparsable" (json.load raises)
\* data_dir: the plugin's data directory exists
\* mkdir:    "ok" | "raises", what creating the data directory does
NoUnit == [dir |-> FALSE, main |-> "absent", handlers |-> NoHandlers, init |-> "none",
           config |-> "absent", data_dir |-> FALSE, mkdir |-> "ok"]

\* main: "absent" (no main.py) | "raises" (executing main.py raises) | "ok"
\* init: "none" (no init hook) | "ok" | "raises"
UnitProfiles ==
    { NoUnit,
      [NoUnit EXCEPT !.dir = TRUE],
      [NoUnit EXCEPT !.dir = TRUE, !.main = "raises"] }
    \cup { [NoUnit EXCEPT !.dir = TRUE, !.main = "ok", !.handlers = WeatherHandlers, !.init = i] :
             i \in {"none", "ok", "raises"} }
    \cup { [NoUnit EXCEPT !.dir = TRUE, !.main = "ok", !.handlers = PickerHandlers, !.init = "ok"],
           [NoUnit EXCEPT !.dir = TRUE, !.main = "ok", !.handlers = NativeHandlers, !.init = "ok"] }

\* get_plugin_path(plugin_name), as the unit found there
get_plugin_path(units, plugin_name) ==
    IF plugin_name \in DOMAIN units THEN units[plugin_name] ELSE NoUnit

\* load_plugins(config): one table entry per enabled plugin whose directory exists;
\* an exception from executing main.py or from init(config) is logged and the
\* entry is registered all the same, with empty data
load_plugins_init(unit) ==
    IF unit.main = "absent" THEN "not_called"
    ELSE IF unit.main = "raises" THEN "failed"
    ELSE IF unit.init = "none" THEN "not_called"
    ELSE IF unit.init = "raises" THEN "failed"
    ELSE "ok"

load_plugins(enabled, units) ==
    [n \in {m \in enabled : get_plugin_path(units, m).dir} |->
        [name |-> n, init |-> load_plugins_init(get_plugin_path(units, n))]]

\* ---- values -----------------------------------------------------------

\* what a handler can return: a JSON object with or without an "error" field, or an
\* object json.dumps cannot encode
RV_media == [payload |-> "media", error |-> "none", encodable |-> TRUE]
RV_skip  == [payload |-> "retry_after", error |-> "Skipping request due to consecutive errors", encodable |-> TRUE]
RV_obj   == [payload |-> "datetime", error |-> "none", encodable |-> FALSE]
NoValue  == [payload |-> "none", error |-> "none", encodable |-> TRUE]

ReturnValues == {RV_media, RV_skip, RV_obj}

\* the dict {'error': msg}
ErrorDict(msg) == [payload |-> "none", error |-> msg, encodable |-> TRUE]

Ret(v) == [k |-> "return", v |-> v, exc |-> "none", msg |-> "none"]
Raise(e, m) == [k |-> "raise", v |-> NoValue, exc |-> e, msg |-> m]

\* what one execution of a handler's body can do
Outcomes ==
    {Ret(v) : v \in ReturnValues}
    \cup {Raise("TypeError", "unsupported operand"), Raise("ValueError", "bad day"),
          Raise("RuntimeError", "boom")}

\* handler() on a handler whose one parameter has no default: the call fails to bind
MissingArgument == Raise("TypeError", "missing 1 required positional argument")

NoArgs == "()"
Queries == {"{}", "{day: [3]}"}

\* json.dumps(value).encode('utf-8')
json_dumps(value) == <<"json", value>>

\* ---- the request path -------------------------------------------------

\* a path is a sequence of tokens: "/" or a name without "/"
PathFull(p, e) == <<"/", "api", "/", "plugins", "/", p, "/", e>>
PathOmitted(p) == <<"/", "api", "/", "plugins", "/", p>>
PathEmpty(p)   == <<"/", "api", "/", "plugins", "/", p, "/">>

DropEmptyNames(path) == SelectSeq(path, LAMBDA t : t # "")

RequestPaths ==
    {DropEmptyNames(PathFull(p, e)) : p \in RequestNames, e \in RequestEndpoints}
    \cup {DropEmptyNames(PathOmitted(p)) : p \in RequestNames}
    \cup {DropEmptyNames(PathEmpty(p)) : p \in RequestNames}
    \cup {PathFull(p, "data") \o <<"/", "extra">> : p \in PluginNames}
    \cup {<<"/", "api", "/", "other", "/", p>> : p \in PluginNames}

RECURSIVE lstrip(_)
lstrip(path) == IF path # <<>> /\ Head(path) = "/" THEN lstrip(Tail(path)) ELSE path

RECURSIVE rstrip(_)
rstrip(path) ==
    IF path # <<>> /\ path[Len(path)] = "/" THEN rstrip(SubSeq(path, 1, Len(path) - 1)) ELSE path

\* path.strip('/')
strip(path) == rstrip(lstrip(path))

\* path.split('/'): the segments between the slashes; a segment is "" or one name
RECURSIVE split_from(_, _, _)
split_from(path, i, cur) ==
    IF i > Len(path) THEN <<cur>>
    ELSE IF path[i] = "/" THEN <<cur>> \o split_from(path, i + 1, "")
    ELSE split_from(path, i + 1, path[i])

split(path) == split_from(path, 1, "")

\* path.startswith('/api/')
startswith_api(path) == Len(path) >= 3 /\ path[1] = "/" /\ path[2] = "api" /\ path[3] = "/"

\* the endpoint taken when the path names none
default_endpoint_index == "index"
default_endpoint == "data"

\* endpoint = parts[3] if len(parts) > 3 else 'data'
endpoint_of(parts) == IF Len(parts) > 3 THEN parts[4] ELSE default_endpoint


\* ---- do_GET -----------------------------------------------------------

\* main_py.exists()
main_py_exists_always(unit) == TRUE
main_py_exists(unit) == unit.dir /\ unit.main # "absent"

\* hasattr(plugin_module, f"api_{endpoint}")
hasattr_handler(unit, endpoint) ==
    endpoint \in DOMAIN unit.handlers /\ unit.handlers[endpoint] # "none"

\* len(inspect.signature(handler).parameters)
sig_parameters(kind) == IF kind = "zero" THEN 0 ELSE 1

\* the arguments of the call made after inspecting the signature
handler_args_swapped(kind, query) == IF sig_parameters(kind) = 0 THEN query ELSE NoArgs
handler_args(kind, query) == IF sig_parameters(kind) = 0 THEN NoArgs ELSE query

\* handler() with no arguments: the body runs unless the one parameter has no default
call_no_args(kind, o) ==
    IF kind = "one"
    THEN [args |-> NoArgs, ran |-> FALSE, out |-> MissingArgument]
    ELSE [args |-> NoArgs, ran |-> TRUE, out |-> o]

\* caught by `except (ValueError, TypeError)`
is_value_or_type_error(out) == out.k = "raise" /\ out.exc \in {"ValueError", "TypeError"}

\* lines 190-198: the calls made to the handler, in order; o1 and o2 are what the
\* first and the second execution of the handler's body do
invoke_handler(kind, query, o1, o2) ==
    IF kind = "uninspectable"
    THEN <<call_no_args(kind, o1)>>
    ELSE LET first == [args |-> handler_args(kind, query), ran |-> TRUE, out |-> o1]
         IN IF is_value_or_type_error(o1)
            THEN <<first, call_no_args(kind, o2)>>
            ELSE <<first>>

NotFoundBody(path) == json_dumps(ErrorDict(<<"Plugin API endpoint not found", path>>))

\* lines 172-226: the plugin API branch of do_GET
dispatch(path, plugin_name, endpoint, query, o1, o2, units) ==
    LET unit == get_plugin_path(units, plugin_name)
        base == [route |-> "api", path |-> path, plugin_name |-> plugin_name,
                 endpoint |-> endpoint, query |-> query, kind |-> "none", calls |-> <<>>,
                 result |-> NoValue, statuses |-> <<>>, body |-> <<>>]
        not_found == [base EXCEPT !.statuses = <<404>>, !.body = NotFoundBody(path)]
        error(r, msg) == [r EXCEPT !.statuses = Append(r.statuses, 500),
                                   !.body = json_dumps(ErrorDict(msg))]
    IN IF ~main_py_exists(unit) THEN not_found
       ELSE IF unit.main = "absent" THEN error(base, "No such file or directory")
       ELSE IF unit.main = "raises" THEN error(base, "error executing main.py")
       ELSE IF ~hasattr_handler(unit, endpoint) THEN not_found
       ELSE LET kind == unit.handlers[endpoint]
                calls == invoke_handler(kind, query, o1, o2)
                final == calls[Len(calls)].out
                called == [base EXCEPT !.kind = kind, !.calls = calls]
            IN IF final.k = "raise" THEN error(called, final.msg)
               ELSE LET sent == [called EXCEPT !.result = final.v, !.statuses = <<200>>]
                    IN IF final.v.encodable
                       THEN [sent EXCEPT !.body = json_dumps(final.v)]
                       ELSE error(sent, "Object is not JSON serializable")

\* a request outside /api/plugins/: served from the static files (not modelled further)
static_route(path, query) ==
    [route |-> "static", path |-> path, plugin_name |-> "", endpoint |-> "", query |-> query,
     kind |-> "none", calls |-> <<>>, result |-> NoValue, statuses |-> <<>>, body |-> <<>>]

\* lines 164-226
do_GET(path, query, o1, o2, units) ==
    LET parts == split(strip(path))
    IN IF startswith_api(path) /\ Len(parts) >= 3 /\ parts[1] = "api" /\ parts[2] = "plugins"
       THEN dispatch(path, parts[3], endpoint_of(parts), query, o1, o2, units)
       ELSE static_route(path, query)

NoResponse ==
    [route |-> "none", path |-> <<>>, plugin_name |-> "", endpoint |-> "", query |-> "{}",
     kind |-> "none", calls |-> <<>>, result |-> NoValue, statuses |-> <<>>, body |-> <<>>]

\* the (plugin, endpoint) pairs for which the files in place define a handler
Dispatchable(units) ==
    {pe \in PluginNames \X RequestEndpoints :
        /\ main_py_exists(units[pe[1]])
        /\ units[pe[1]].main = "ok"
        /\ hasattr_handler(units[pe[1]], pe[2])}

\* no request is in progress
NoHandler ==
    [pc |-> "idle", kind |-> "none", plugins |-> <<>>, newest |-> <<>>, building |-> <<>>,
     todo |-> {}]

NoRender == [kind |-> "none", table |-> <<>>, newest |-> <<>>]

\* nothing has been reloaded, no request is in progress
ReloadIdle ==
    /\ server_plugins = <<>>
    /\ handler = NoHandler
    /\ rendered = NoRender
    /\ loads = 0
    /\ discovered = {}

\* main(): plugins = load_plugins(config), then the server starts
main_startup ==
    /\ srv_pc = "boot"
    /\ plugins' = load_plugins(enabledPlugins, fs)
    /\ srv_pc' = "serving"
    /\ loads' = loads + 1
    /\ discovered' = Dispatchable(fs)
    /\ UNCHANGED <<fs, enabledPlugins, served, response, server_plugins, handler, rendered>>
    /\ UNCHANGED ldVars
    /\ UNCHANGED plugVars

\* one GET request handled by KioskHTTPRequestHandler.do_GET
do_GET_request ==
    /\ srv_pc = "serving"
    /\ served < MaxRequests
    /\ \E path \in RequestPaths, query \in Queries, o1 \in Outcomes, o2 \in Outcomes :
          \* the second execution is drawn only when the fallback call can happen
          /\ is_value_or_type_error(o1) \/ o2 = o1
          /\ response' = do_GET(path, query, o1, o2, fs)
    /\ srv_pc' = "responded"
    /\ served' = served + 1
    /\ UNCHANGED <<fs, enabledPlugins, discovered, plugins, server_plugins, handler, rendered, loads>>
    /\ UNCHANGED ldVars
    /\ UNCHANGED plugVars

\* the request is over: the handler object is discarded, the server takes the next one
finish_request ==
    /\ srv_pc = "responded"
    /\ srv_pc' = "serving"
    /\ response' = NoResponse
    /\ UNCHANGED <<fs, enabledPlugins, discovered, plugins, served, server_plugins, handler, rendered, loads>>
    /\ UNCHANGED ldVars
    /\ UNCHANGED plugVars

DispatchInit ==
    /\ fs \in [PluginNames -> UnitProfiles]
    /\ enabledPlugins \in SUBSET PluginNames
    /\ plugins = << >>
    /\ srv_pc = "boot"
    /\ served = 0
    /\ response = NoResponse
    /\ ReloadIdle

\* the server is not running
DispatchIdle ==
    /\ fs = [n \in PluginNames |-> NoUnit]
    /\ enabledPlugins = {}
    /\ plugins = << >>
    /\ srv_pc = "boot"
    /\ served = 0
    /\ response = NoResponse
    /\ ReloadIdle

DispatchNext == main_startup \/ do_GET_request \/ finish_request

\* what a plugin directory is before and after somebody installs, replaces or removes
\* it: nothing, a plugin with the weather handlers, a plugin with the picker handlers
LiveUnits ==
    { NoUnit,
      [NoUnit EXCEPT !.dir = TRUE, !.main = "ok", !.handlers = WeatherHandlers, !.init = "ok"],
      [NoUnit EXCEPT !.dir = TRUE, !.main = "ok", !.handlers = PickerHandlers, !.init = "ok"] }

\* a plugin directory is put in place, replaced or removed while the server runs
plugin_files_change ==
    /\ srv_pc = "serving"
    /\ \E plugin_name \in PluginNames, unit \in LiveUnits :
          /\ unit # fs[plugin_name]
          /\ fs' = [fs EXCEPT ![plugin_name] = unit]
    /\ UNCHANGED <<enabledPlugins, discovered, plugins, srv_pc, served, response, server_plugins,
                   handler, rendered, loads>>
    /\ UNCHANGED ldVars
    /\ UNCHANGED plugVars

LiveFilesInit ==
    /\ fs \in [PluginNames -> LiveUnits]
    /\ enabledPlugins = PluginNames
    /\ plugins = << >>
    /\ srv_pc = "boot"
    /\ served = 0
    /\ response = NoResponse
    /\ ReloadIdle

LiveFilesNext == main_startup \/ do_GET_request \/ finish_request \/ plugin_files_change

\* ---- the plugin table and its reload -----------------------------------

\* the dict object main() got from load_plugins: the first one built
main_plugins == [id |-> 1, entries |-> plugins]

\* handler(*args, **kwargs) in main(): KioskHTTPRequestHandler(..., plugins=plugins),
\* whose __init__ binds self.plugins to it
handler_factory(kind) ==
    [NoHandler EXCEPT !.pc = "running", !.kind = kind, !.plugins = <<main_plugins>>,
                      !.newest = server_plugins]

\* HTTPServer takes the next request (one at a time) and constructs its handler
accept_request ==
    /\ srv_pc = "serving"
    /\ served < MaxRequests
    /\ \E kind \in {"index", "callback"} : handler' = handler_factory(kind)
    /\ srv_pc' = "handling"
    /\ served' = served + 1
    /\ UNCHANGED <<fs, enabledPlugins, discovered, plugins, response, server_plugins, rendered, loads>>
    /\ UNCHANGED ldVars
    /\ UNCHANGED plugVars

\* do_GET for / or /index.html: template.render(config=self.config, plugins=self.plugins)
index_page ==
    /\ srv_pc = "handling"
    /\ handler.kind = "index"
    /\ rendered' = [kind |-> "index", table |-> handler.plugins, newest |-> handler.newest]
    /\ handler' = NoHandler
    /\ srv_pc' = "serving"
    /\ UNCHANGED <<fs, enabledPlugins, discovered, plugins, served, response, server_plugins, loads>>
    /\ UNCHANGED ldVars
    /\ UNCHANGED plugVars

\* handle_oauth2callback reaches load_plugins(self.config): plugins = {}
oauth2callback_load_plugins ==
    /\ srv_pc = "handling"
    /\ handler.kind = "callback"
    /\ handler.pc = "running"
    /\ handler' = [handler EXCEPT !.pc = "loading", !.building = <<>>, !.todo = enabledPlugins]
    /\ UNCHANGED <<fs, enabledPlugins, discovered, plugins, srv_pc, served, response, server_plugins,
                   rendered, loads>>
    /\ UNCHANGED ldVars
    /\ UNCHANGED plugVars

server_plugins_built_in_place(current, building) == <<[id |-> 0, entries |-> building]>>

\* what self.server.plugins is while load_plugins fills its local dict
server_plugins_while_loading(current, building) == current

\* one round of `for plugin_name in enabled_plugins`
run_load_plugins_loop ==
    /\ handler.pc = "loading"
    /\ \E plugin_name \in handler.todo :
          LET unit == get_plugin_path(fs, plugin_name)
              plugin_info == [name |-> plugin_name, init |-> load_plugins_init(unit)]
              building == IF unit.dir
                          THEN (plugin_name :> plugin_info) @@ handler.building
                          ELSE handler.building
          IN  /\ handler' = [handler EXCEPT !.building = building,
                                            !.todo = handler.todo \ {plugin_name}]
              /\ server_plugins' = server_plugins_while_loading(server_plugins, building)
    /\ UNCHANGED <<fs, enabledPlugins, discovered, plugins, srv_pc, served, response, rendered, loads>>
    /\ UNCHANGED ldVars
    /\ UNCHANGED plugVars

\* self.server.plugins = load_plugins(self.config), once the loop has returned
oauth2callback_assign ==
    /\ handler.pc = "loading"
    /\ handler.todo = {}
    /\ server_plugins' = <<[id |-> loads + 1, entries |-> handler.building]>>
    /\ loads' = loads + 1
    /\ handler' = [handler EXCEPT !.pc = "redirect"]
    /\ discovered' = Dispatchable(fs)
    /\ UNCHANGED <<fs, enabledPlugins, plugins, srv_pc, served, response, rendered>>
    /\ UNCHANGED ldVars
    /\ UNCHANGED plugVars

\* the callback request sends its 302 and is over
oauth2callback_redirect ==
    /\ handler.pc = "redirect"
    /\ rendered' = [kind |-> "callback", table |-> handler.plugins, newest |-> handler.newest]
    /\ handler' = NoHandler
    /\ srv_pc' = "serving"
    /\ UNCHANGED <<fs, enabledPlugins, discovered, plugins, served, response, server_plugins, loads>>
    /\ UNCHANGED ldVars
    /\ UNCHANGED plugVars

ReloadNext ==
    \/ main_startup
    \/ accept_request
    \/ index_page
    \/ oauth2callback_load_plugins
    \/ run_load_plugins_loop
    \/ oauth2callback_assign
    \/ oauth2callback_redirect

\* ---- run.py load_plugins(config), one statement group at a time -----------

\* plugin directories as load_plugins can find them: with or without config.json
\* (parsable or not), with or without a data directory (creatable or not), with a
\* main.py whose init hook is missing, returns or raises
ConfigureUnits ==
    {NoUnit}
    \cup { [NoUnit EXCEPT !.dir = TRUE, !.main = "ok", !.handlers = WeatherHandlers,
                          !.init = i, !.config = c, !.data_dir = d[1], !.mkdir = d[2]] :
             i \in {"none", "ok", "raises"},
             c \in {"absent", "ok", "unparsable"},
             d \in {<<TRUE, "ok">>, <<FALSE, "ok">>, <<FALSE, "raises">>} }

scanVars == <<ld_profile, ld_listing, ld_i, ld_plugins, ld_pc, workers, import_sessions>>

read_plugin_config_unset(unit) == IF unit.config = "ok" THEN "parsed" ELSE "unset"

\* plugin_config = {}; replaced by json.load(f) when config.json exists and parses
read_plugin_config(unit) == IF unit.config = "ok" THEN "parsed" ELSE "{}"

\* main() calls load_plugins(config): plugins = {}, enabled_plugins = config[...]
configure_start ==
    /\ srv_pc = "boot"
    /\ configuring.pc = "idle"
    /\ configuring' = [NotConfiguring EXCEPT !.pc = "loop", !.todo = enabledPlugins,
                                             !.init_calls = [n \in PluginNames |-> <<>>]]
    /\ UNCHANGED scanVars
    /\ UNCHANGED srvVars
    /\ UNCHANGED plugVars

\* for plugin_name in enabled_plugins: `continue` when the plugin directory is missing
configure_next ==
    /\ configuring.pc = "loop"
    /\ \E plugin_name \in configuring.todo :
          configuring' = [configuring EXCEPT
                              !.todo = configuring.todo \ {plugin_name},
                              !.plugin_name = plugin_name,
                              !.pc = IF get_plugin_path(fs, plugin_name).dir
                                     THEN "config" ELSE "loop"]
    /\ UNCHANGED scanVars
    /\ UNCHANGED srvVars
    /\ UNCHANGED plugVars

\* lines 444-458: the plugin's own config file
configure_config ==
    /\ configuring.pc = "config"
    /\ configuring' = [configuring EXCEPT
                           !.plugin_config = read_plugin_config(fs[configuring.plugin_name]),
                           !.pc = "data_dir"]
    /\ UNCHANGED scanVars
    /\ UNCHANGED srvVars
    /\ UNCHANGED plugVars

\* lines 460-469: mkdir when the data directory is missing; a failure is logged
configure_data_dir ==
    /\ configuring.pc = "data_dir"
    /\ LET unit == fs[configuring.plugin_name]
       IN  fs' = IF ~unit.data_dir /\ unit.mkdir = "ok"
                 THEN [fs EXCEPT ![configuring.plugin_name].data_dir = TRUE]
                 ELSE fs
    /\ configuring' = [configuring EXCEPT !.pc = "init"]
    /\ UNCHANGED scanVars
    /\ UNCHANGED <<enabledPlugins, discovered, plugins, srv_pc, served, response, server_plugins, handler,
                   rendered, loads>>
    /\ UNCHANGED plugVars

\* lines 507-559: init(plugin_config) when main.py defines it, then
\* plugins[plugin_name] = plugin_info
configure_init ==
    /\ configuring.pc = "init"
    /\ LET plugin_name == configuring.plugin_name
           unit == fs[plugin_name]
           called == unit.main = "ok" /\ unit.init # "none"
           call == [config |-> configuring.plugin_config, data_dir |-> unit.data_dir]
           plugin_info == [name |-> plugin_name, init |-> load_plugins_init(unit)]
       IN  configuring' = [configuring EXCEPT
                               !.init_calls[plugin_name] = IF called THEN <<call>> ELSE <<>>,
                               !.plugins = (plugin_name :> plugin_info) @@ configuring.plugins,
                               !.plugin_config = "{}",
                               !.pc = "loop"]
    /\ UNCHANGED scanVars
    /\ UNCHANGED srvVars
    /\ UNCHANGED plugVars

\* return plugins; main() keeps the table and starts the server
configure_return ==
    /\ configuring.pc = "loop"
    /\ configuring.todo = {}
    /\ configuring' = [configuring EXCEPT !.pc = "returned", !.plugin_name = ""]
    /\ plugins' = configuring.plugins
    /\ srv_pc' = "serving"
    /\ loads' = loads + 1
    /\ discovered' = Dispatchable(fs)
    /\ UNCHANGED scanVars
    /\ UNCHANGED <<fs, enabledPlugins, served, response, server_plugins, handler, rendered>>
    /\ UNCHANGED plugVars

ConfigureInit ==
    /\ fs \in [PluginNames -> ConfigureUnits]
    /\ enabledPlugins \in SUBSET PluginNames
    /\ plugins = << >>
    /\ srv_pc = "boot"
    /\ served = 0
    /\ response = NoResponse
    /\ ReloadIdle

ConfigureNext ==
    \/ configure_start
    \/ configure_next
    \/ configure_config
    \/ configure_data_dir
    \/ configure_init
    \/ configure_return

(***************************************************************************)
(* Plugins: clock, cache files, error state                                *)
(***************************************************************************)

\* clock advances in one run of the model
MaxTicks == 3

\* time.time() when the model starts
StartTime == 1700000000

PluginCaches == {"google-photos", "google-picker", "weather-forecast", "random-nature-photos"}

NoRead ==
    [cache |-> "none", op |-> "none", returned |-> <<>>, fetched |-> FALSE, cold |-> FALSE,
     had |-> <<>>]

\* no handler has answered
NoReply ==
    [plugin |-> "none", op |-> "none", skipped |-> FALSE, attempts |-> 0, raised |-> FALSE,
     reply |-> <<>>, before |-> <<>>]

\* time passes; d is drawn from the steps the specification names
Tick(steps) ==
    /\ ticks < MaxTicks
    /\ \E d \in steps : now' = now + d
    /\ ticks' = ticks + 1
    /\ cache_read' = NoRead
    /\ api_reply' = NoReply
    /\ UNCHANGED <<n_calls, photos_cache_file, selected_photos_file, nature_cache_file,
                   weather_cache, error_state_file, stored, cold, n_failures>>
    /\ UNCHANGED ldVars
    /\ UNCHANGED srvVars

\* nothing has been stored, no process has been restarted, no read has been made
PluginsInit ==
    /\ now = StartTime
    /\ ticks = 0
    /\ n_calls = 0
    /\ photos_cache_file = <<>>
    /\ selected_photos_file = <<>>
    /\ nature_cache_file = <<>>
    /\ weather_cache = [data |-> <<>>, timestamp |-> 0, last_successful_fetch |-> 0,
                        error_count |-> 0, last_error |-> "None"]   \* main.py lines 27-33
    /\ error_state_file = <<>>
    /\ stored = [c \in PluginCaches |-> <<>>]
    /\ cold = [c \in PluginCaches |-> FALSE]
    /\ cache_read = NoRead
    /\ n_failures = 0
    /\ api_reply = NoReply

\* ---- google-photos/main.py and google-picker/main.py: file caches with an expiry ----

\* google-photos CACHE_EXPIRY = 90 * 24 * 3600
PHOTOS_CACHE_EXPIRY == 7776000

\* google-picker CACHE_EXPIRY = 7 * 24 * 3600
PICKER_CACHE_EXPIRY == 604800

\* album lists the Photos API can return
AlbumLists == {<<"album1">>, <<"album1", "album2">>}

\* photo selections a picker session can deliver (an empty selection reads back as
\* the same [] that stands for an absent cache, so only non-empty ones are drawn)
PhotoLists == {<<"photo1">>, <<"photo1", "photo2">>}

cache_fresh_unchecked(t, timestamp, expiry) == TRUE

\* time.time() - cache.get('timestamp', 0) < CACHE_EXPIRY
cache_fresh(t, timestamp, expiry) == t - timestamp < expiry

\* load_cache(): the cache dict, or None (<<>>) when the file is missing or expired
load_cache(file, t) ==
    IF file # <<>> /\ cache_fresh(t, file[1].timestamp, PHOTOS_CACHE_EXPIRY) THEN <<file[1]>> ELSE <<>>

\* save_cache({'albums': albums})
save_cache(albums, t) == <<[timestamp |-> t, albums |-> albums]>>

\* load_selected_photos(): the photo list, or [] when the file is missing or expired
load_selected_photos(file, t) ==
    IF file # <<>> /\ cache_fresh(t, file[1].timestamp, PICKER_CACHE_EXPIRY) THEN file[1].photos ELSE <<>>

\* save_selected_photos(photos)
save_selected_photos(photos, t) == <<[timestamp |-> t, photos |-> photos, total_count |-> Len(photos)]>>

photos_save_cache ==
    /\ \E albums \in AlbumLists :
          /\ photos_cache_file' = save_cache(albums, now)
          /\ stored' = [stored EXCEPT !["google-photos"] = <<[at |-> now, value |-> albums]>>]
    /\ cache_read' = NoRead
    /\ api_reply' = NoReply
    /\ UNCHANGED <<now, ticks, n_calls, selected_photos_file, nature_cache_file, weather_cache,
                   error_state_file, cold, n_failures>>
    /\ UNCHANGED ldVars
    /\ UNCHANGED srvVars

photos_load_cache ==
    /\ cache_read' = [cache |-> "google-photos", op |-> "load_cache",
                      returned |-> load_cache(photos_cache_file, now),
                      fetched |-> FALSE, cold |-> cold["google-photos"],
                                had |-> stored["google-photos"]]
    /\ cold' = [cold EXCEPT !["google-photos"] = FALSE]
    /\ api_reply' = NoReply
    /\ UNCHANGED <<now, ticks, n_calls, photos_cache_file, selected_photos_file, nature_cache_file,
                   weather_cache, error_state_file, stored, n_failures>>
    /\ UNCHANGED ldVars
    /\ UNCHANGED srvVars

\* a save whose file name resolves to google-photos' cache file as well
picker_save_shared_cache_file ==
    /\ \E photos \in PhotoLists :
          /\ selected_photos_file' = save_selected_photos(photos, now)
          /\ photos_cache_file' = save_selected_photos(photos, now)
          /\ stored' = [stored EXCEPT !["google-picker"] = <<[at |-> now, value |-> photos]>>]
    /\ cache_read' = NoRead
    /\ api_reply' = NoReply
    /\ UNCHANGED <<now, ticks, n_calls, nature_cache_file, weather_cache,
                   error_state_file, cold, n_failures>>
    /\ UNCHANGED ldVars
    /\ UNCHANGED srvVars

\* save_selected_photos(photos) writes google-picker/cache/selected_photos.json
picker_save_selected_photos ==
    /\ \E photos \in PhotoLists :
          /\ selected_photos_file' = save_selected_photos(photos, now)
          /\ stored' = [stored EXCEPT !["google-picker"] = <<[at |-> now, value |-> photos]>>]
    /\ cache_read' = NoRead
    /\ api_reply' = NoReply
    /\ UNCHANGED <<now, ticks, n_calls, photos_cache_file, nature_cache_file, weather_cache,
                   error_state_file, cold, n_failures>>
    /\ UNCHANGED ldVars
    /\ UNCHANGED srvVars

picker_load_selected_photos ==
    /\ cache_read' = [cache |-> "google-picker", op |-> "load_selected_photos",
                      returned |-> load_selected_photos(selected_photos_file, now),
                      fetched |-> FALSE, cold |-> cold["google-picker"],
                                had |-> stored["google-picker"]]
    /\ cold' = [cold EXCEPT !["google-picker"] = FALSE]
    /\ api_reply' = NoReply
    /\ UNCHANGED <<now, ticks, n_calls, photos_cache_file, selected_photos_file, nature_cache_file,
                   weather_cache, error_state_file, stored, n_failures>>
    /\ UNCHANGED ldVars
    /\ UNCHANGED srvVars

\* clock steps that land just before, on and just after each expiry
CacheSteps == {1, PICKER_CACHE_EXPIRY - 1, PHOTOS_CACHE_EXPIRY - 1}

TickCache == Tick(CacheSteps)

CacheNext ==
    \/ photos_save_cache
    \/ photos_load_cache
    \/ picker_save_selected_photos
    \/ picker_load_selected_photos
    \/ TickCache

\* ---- google-photos/main.py: error state and backoff ----

DEFAULT_REFRESH_INTERVAL == 300

MAX_REFRESH_INTERVAL == 3600

ERROR_BACKOFF_MULTIPLIER == 2

MAX_CONSECUTIVE_ERRORS == 10

\* record_api_error calls in a row in one run of the model
MaxFailures == 12

ErrorTypes == {"quota_exceeded", "permission_denied", "http_error", "api_error"}

UnresetErrorState ==
    [consecutive_errors |-> 1, last_error_time |-> 0,
     current_interval |-> 600, last_error_type |-> "api_error"]

\* the dict load_error_state returns without a file, and record_api_success writes
CleanErrorState ==
    [consecutive_errors |-> 0, last_error_time |-> 0,
     current_interval |-> DEFAULT_REFRESH_INTERVAL, last_error_type |-> "None"]

load_error_state(file) == IF file # <<>> THEN file[1] ELSE CleanErrorState

save_error_state(error_state) == <<error_state>>

backoff_interval_from_base(n) ==
    Min(DEFAULT_REFRESH_INTERVAL * (ERROR_BACKOFF_MULTIPLIER ^ (n - 1)), MAX_REFRESH_INTERVAL)

backoff_interval_uncapped(n) == DEFAULT_REFRESH_INTERVAL * (ERROR_BACKOFF_MULTIPLIER ^ n)

\* min(DEFAULT_REFRESH_INTERVAL * (ERROR_BACKOFF_MULTIPLIER ** n), MAX_REFRESH_INTERVAL)
backoff_interval(n) ==
    Min(DEFAULT_REFRESH_INTERVAL * (ERROR_BACKOFF_MULTIPLIER ^ n), MAX_REFRESH_INTERVAL)

\* the file record_api_error(error_type, _) leaves behind at time t
record_api_error_file(file, error_type, t) ==
    LET error_state == load_error_state(file)
        n == error_state.consecutive_errors + 1
        counted == [error_state EXCEPT !.consecutive_errors = n,
                                       !.last_error_time = t,
                                       !.last_error_type = error_type]
    IN  save_error_state(IF n <= MAX_CONSECUTIVE_ERRORS
                         THEN [counted EXCEPT !.current_interval = backoff_interval(n)]
                         ELSE counted)

record_api_error ==
    /\ load_error_state(error_state_file).consecutive_errors < MaxFailures
    /\ \E error_type \in ErrorTypes :
          error_state_file' = record_api_error_file(error_state_file, error_type, now)
    /\ n_failures' = n_failures + 1
    /\ cache_read' = NoRead
    /\ api_reply' = NoReply
    /\ UNCHANGED <<now, ticks, n_calls, photos_cache_file, selected_photos_file, nature_cache_file,
                   weather_cache, stored, cold>>
    /\ UNCHANGED ldVars
    /\ UNCHANGED srvVars

record_api_success ==
    /\ error_state_file' = save_error_state(CleanErrorState)
    /\ n_failures' = 0
    /\ cache_read' = NoRead
    /\ api_reply' = NoReply
    /\ UNCHANGED <<now, ticks, n_calls, photos_cache_file, selected_photos_file, nature_cache_file,
                   weather_cache, stored, cold>>
    /\ UNCHANGED ldVars
    /\ UNCHANGED srvVars

\* api_reset_errors(): record_api_success(), then the reply
api_reset_errors ==
    /\ error_state_file' = save_error_state(CleanErrorState)
    /\ n_failures' = 0
    /\ cache_read' = NoRead
    /\ api_reply' = [NoReply EXCEPT !.plugin = "google-photos", !.op = "api_reset_errors",
                                    !.reply = <<[message |-> "Error state reset to normal",
                                                 refresh_interval |-> DEFAULT_REFRESH_INTERVAL]>>,
                                    !.before = <<load_error_state(error_state_file)>>]
    /\ UNCHANGED <<now, ticks, n_calls, photos_cache_file, selected_photos_file, nature_cache_file,
                   weather_cache, stored, cold>>
    /\ UNCHANGED ldVars
    /\ UNCHANGED srvVars

skip_window_unbounded(time_since_error, current_interval) == TRUE

\* time_since_error < error_state['current_interval']
skip_window(time_since_error, current_interval) == time_since_error < current_interval

\* the count from which should_skip_due_to_errors looks at the clock at all
skip_threshold == MAX_CONSECUTIVE_ERRORS

\* should_skip_due_to_errors() at time t: the flag of the pair it returns
should_skip_due_to_errors(file, t) ==
    LET error_state == load_error_state(file)
    IN  IF error_state.consecutive_errors = 0 THEN FALSE
        ELSE IF error_state.consecutive_errors >= skip_threshold
                /\ skip_window(t - error_state.last_error_time, error_state.current_interval)
             THEN TRUE
        ELSE FALSE

\* a caller asks should_skip_due_to_errors()
photos_should_skip ==
    /\ api_reply' = [NoReply EXCEPT !.plugin = "google-photos",
                                    !.op = "should_skip_due_to_errors",
                                    !.skipped = should_skip_due_to_errors(error_state_file, now),
                                    !.before = <<load_error_state(error_state_file)>>]
    /\ cache_read' = NoRead
    /\ UNCHANGED <<now, ticks, n_calls, photos_cache_file, selected_photos_file, nature_cache_file,
                   weather_cache, error_state_file, stored, cold, n_failures>>
    /\ UNCHANGED ldVars
    /\ UNCHANGED srvVars

BackoffSteps == {1, DEFAULT_REFRESH_INTERVAL, MAX_REFRESH_INTERVAL}

TickBackoff == Tick(BackoffSteps)

BackoffNext ==
    \/ record_api_error
    \/ record_api_success
    \/ api_reset_errors
    \/ photos_should_skip
    \/ TickBackoff

\* ---- record_api_error of requests that overlap ---------------------------

plugFrame == <<now, ticks, n_calls, photos_cache_file, selected_photos_file, nature_cache_file,
               weather_cache, stored, cold>>

loaderFrame == <<ld_profile, ld_listing, ld_i, ld_plugins, ld_pc, configuring, import_sessions>>

\* what open(ERROR_STATE_FILE, 'r') and json.load give while another request has the
\* file open for writing and has written nothing yet: an empty document, on which
\* json.load raises, so that load_error_state returns its default
read_error_state_file(file, truncated) == IF truncated THEN <<>> ELSE file

\* the upstream failures the overlapping requests record
OverlapErrorTypes == {"quota_exceeded", "http_error"}

\* error_state = load_error_state()
worker_load_error_state(w) ==
    /\ workers.req[w].pc = "idle"
    /\ n_failures < MaxFailures
    /\ workers' = [workers EXCEPT
                      !.req[w] = [pc |-> "loaded",
                                  error_state |-> <<load_error_state(
                                      read_error_state_file(error_state_file, workers.truncated))>>],
                      !.read_empty = workers.read_empty
                                     \/ (workers.truncated /\ error_state_file # <<>>)]
    /\ n_failures' = n_failures + 1
    /\ cache_read' = NoRead
    /\ api_reply' = NoReply
    /\ UNCHANGED error_state_file
    /\ UNCHANGED plugFrame
    /\ UNCHANGED loaderFrame
    /\ UNCHANGED srvVars

\* the count, time, type and interval are set; save_error_state opens the file with
\* mode 'w', which empties it
worker_open_error_state(w) ==
    /\ workers.req[w].pc = "loaded"
    /\ \E error_type \in OverlapErrorTypes :
          workers' = [workers EXCEPT
                         !.req[w] = [pc |-> "opened",
                                     error_state |-> record_api_error_file(
                                         workers.req[w].error_state, error_type, now)],
                         !.truncated = TRUE]
    /\ cache_read' = NoRead
    /\ api_reply' = NoReply
    /\ UNCHANGED <<error_state_file, n_failures>>
    /\ UNCHANGED plugFrame
    /\ UNCHANGED loaderFrame
    /\ UNCHANGED srvVars

\* json.dump(error_state, f, indent=2) and the file is closed
worker_dump_error_state(w) ==
    /\ workers.req[w].pc = "opened"
    /\ error_state_file' = workers.req[w].error_state
    /\ workers' = [workers EXCEPT !.req[w] = [pc |-> "idle", error_state |-> <<>>],
                                  !.truncated = FALSE]
    /\ cache_read' = NoRead
    /\ api_reply' = NoReply
    /\ UNCHANGED n_failures
    /\ UNCHANGED plugFrame
    /\ UNCHANGED loaderFrame
    /\ UNCHANGED srvVars

worker_record_api_error ==
    \E w \in Workers :
        \/ worker_load_error_state(w)
        \/ worker_open_error_state(w)
        \/ worker_dump_error_state(w)

OverlapNext == worker_record_api_error

\* ---- read-through caches: list_albums, get_weather_data, get_current_photo ----

\* plugin functions called in one run of the model
MaxCalls == 3

\* what service.albums().list(pageSize=50).execute() does when list_albums gets that far
AlbumsReturned == {[k |-> "albums", albums |-> a, error_type |-> "None"] : a \in AlbumLists}

AlbumsNoSession == [k |-> "no_session", albums |-> <<>>, error_type |-> "None"]

AlbumsRaises == [k |-> "raises", albums |-> <<>>, error_type |-> "None"]

\* HttpError, by the error type list_albums records for it
AlbumsHttpErrors ==
    {[k |-> "HttpError", albums |-> <<>>, error_type |-> e] :
        e \in {"quota_exceeded", "permission_denied", "http_error"}}

\* list_albums() at time t: what it returns, whether it asked the API, the files it leaves
list_albums(file, errors, t, up) ==
    LET cache == load_cache(file, t)
        base == [returned |-> <<>>, fetched |-> FALSE, raised |-> FALSE, saved |-> FALSE,
                 failed |-> FALSE, file |-> file, errors |-> errors]
    IN  IF cache # <<>>
        THEN [base EXCEPT !.returned = cache[1].albums]
        ELSE IF up.k = "no_session" THEN base
        ELSE IF up.k = "albums"
             THEN [base EXCEPT !.returned = up.albums, !.fetched = TRUE, !.saved = TRUE,
                               !.file = save_cache(up.albums, t)]
        ELSE IF up.k = "HttpError"
             THEN [base EXCEPT !.fetched = TRUE, !.failed = TRUE,
                               !.errors = record_api_error_file(errors, up.error_type, t)]
        ELSE [base EXCEPT !.fetched = TRUE, !.raised = TRUE]

photos_list_albums(upstream) ==
    /\ n_calls < MaxCalls
    /\ \E up \in upstream :
          LET r == list_albums(photos_cache_file, error_state_file, now, up)
          IN  /\ r.failed => load_error_state(error_state_file).consecutive_errors < MaxFailures
              /\ photos_cache_file' = r.file
              /\ error_state_file' = r.errors
              /\ n_failures' = IF r.failed THEN n_failures + 1 ELSE n_failures
              /\ stored' = IF r.saved
                           THEN [stored EXCEPT !["google-photos"] = <<[at |-> now, value |-> r.returned]>>]
                           ELSE stored
              /\ cache_read' = [cache |-> "google-photos", op |-> "list_albums",
                                returned |-> r.returned, fetched |-> r.fetched,
                                cold |-> cold["google-photos"],
                                had |-> stored["google-photos"]]
    /\ cold' = [cold EXCEPT !["google-photos"] = FALSE]
    /\ api_reply' = NoReply
    /\ n_calls' = n_calls + 1
    /\ UNCHANGED <<now, ticks, selected_photos_file, nature_cache_file, weather_cache>>
    /\ UNCHANGED ldVars
    /\ UNCHANGED srvVars

\* ---- google-photos/main.py: api_data ----

\* what service.mediaItems().search(body=body).execute() does
MediaReturned == {[k |-> "media", items |-> <<"media1", "media2">>, error_type |-> "None"]}

MediaEmpty == [k |-> "empty", items |-> <<>>, error_type |-> "None"]

MediaRaises == [k |-> "raises", items |-> <<>>, error_type |-> "None"]

MediaHttpErrors ==
    {[k |-> "HttpError", items |-> <<>>, error_type |-> e] :
        e \in {"quota_exceeded", "permission_denied", "http_error"}}

\* get_random_photo_batch() without a service session
NoBatch(file, errors) ==
    [photos |-> <<>>, attempts |-> 0, file |-> file, errors |-> errors,
     saved |-> FALSE, failed |-> FALSE, albums |-> <<>>]

\* get_random_photo_batch() from `albums = list_albums()` on; la is what list_albums did
batch_of_albums(la, mup, t) ==
    LET listed == [photos |-> <<>>, attempts |-> IF la.fetched THEN 1 ELSE 0,
                   file |-> la.file, errors |-> la.errors, saved |-> la.saved,
                   failed |-> la.failed, albums |-> la.returned]
    IN  IF la.raised \/ la.returned = <<>> THEN listed
        ELSE IF mup.k = "media"
             THEN [listed EXCEPT !.photos = mup.items, !.attempts = listed.attempts + 1]
        ELSE IF mup.k = "HttpError"
             THEN [listed EXCEPT !.attempts = listed.attempts + 1, !.failed = TRUE,
                                 !.errors = record_api_error_file(la.errors, mup.error_type, t)]
        ELSE [listed EXCEPT !.attempts = listed.attempts + 1]

\* get_random_photo_batch() at time t. Every album drawn has media (mediaItemsCount > 0);
\* the random album, the random start index and the sequence built from them are left
\* out: the batch is the album's media, [] on any failure.
get_random_photo_batch(file, errors, t, aup, mup) ==
    IF aup.k = "no_session" THEN NoBatch(file, errors)
    ELSE batch_of_albums(list_albums(file, errors, t, aup), mup, t)

MediaReply(photos) == [kind |-> "media", media |-> photos, error |-> "None", retry_after |-> 0]

ErrorReply(error, retry_after) ==
    [kind |-> "error", media |-> <<>>, error |-> error, retry_after |-> retry_after]

\* api_data() when should_skip_due_to_errors() said skip
api_data_skipped(file, errors, error_state, t) ==
    [skipped |-> TRUE, succeeded |-> FALSE, attempts |-> 0, file |-> file, errors |-> errors,
     saved |-> FALSE, failed |-> FALSE, albums |-> <<>>,
     reply |-> ErrorReply("Skipping request due to consecutive errors",
                          error_state.current_interval - (t - error_state.last_error_time))]

\* api_data() from `photos = get_random_photo_batch()` on
api_data_batch(batch) ==
    LET out == [skipped |-> FALSE, succeeded |-> FALSE, attempts |-> batch.attempts,
                file |-> batch.file, errors |-> batch.errors, saved |-> batch.saved,
                failed |-> batch.failed, albums |-> batch.albums,
                reply |-> ErrorReply("No photos available", 0)]
    IN  IF batch.photos = <<>> THEN out
        ELSE [out EXCEPT !.succeeded = TRUE, !.errors = save_error_state(CleanErrorState),
                         !.reply = MediaReply(batch.photos)]

\* api_data() at time t
api_data(file, errors, t, aup, mup) ==
    IF should_skip_due_to_errors(errors, t)
    THEN api_data_skipped(file, errors, load_error_state(errors), t)
    ELSE api_data_batch(get_random_photo_batch(file, errors, t, aup, mup))

photos_api_data(album_upstream, media_upstream) ==
    /\ \E aup \in album_upstream, mup \in media_upstream :
          LET r == api_data(photos_cache_file, error_state_file, now, aup, mup)
          IN  /\ r.failed => load_error_state(error_state_file).consecutive_errors < MaxFailures
              /\ photos_cache_file' = r.file
              /\ error_state_file' = r.errors
              /\ n_failures' = IF r.failed THEN n_failures + 1
                               ELSE IF r.succeeded THEN 0 ELSE n_failures
              /\ stored' = IF r.saved
                           THEN [stored EXCEPT !["google-photos"] = <<[at |-> now, value |-> r.albums]>>]
                           ELSE stored
              /\ api_reply' = [NoReply EXCEPT !.plugin = "google-photos", !.op = "api_data",
                                              !.skipped = r.skipped, !.attempts = r.attempts,
                                              !.reply = <<r.reply>>,
                                              !.before = <<load_error_state(error_state_file)>>]
    /\ cache_read' = NoRead
    /\ UNCHANGED <<now, ticks, n_calls, selected_photos_file, nature_cache_file, weather_cache, cold>>
    /\ UNCHANGED ldVars
    /\ UNCHANGED srvVars

\* the Photos API behind a stub that answers, or fails with HTTP 429
Http429 == {"quota_exceeded"}

Albums429 == AlbumsReturned \cup {a \in AlbumsHttpErrors : a.error_type \in Http429}

Media429 == MediaReturned \cup {m \in MediaHttpErrors : m.error_type \in Http429}

photos_api_data_429 == photos_api_data(Albums429, Media429)

PhotosApiSteps == {1, MAX_REFRESH_INTERVAL}

TickPhotosApi == Tick(PhotosApiSteps)

PhotosApiNext == photos_api_data_429 \/ TickPhotosApi

\* the Photos API answering, failing with an HttpError (HTTP 429 standing for every
\* status: only the recorded error type differs), failing with another exception
\* (a network failure), or not reachable for want of a service session
AlbumsUpstream == Albums429 \cup {AlbumsNoSession, AlbumsRaises}

MediaUpstream == Media429 \cup {MediaRaises}

photos_api_data_call == photos_api_data(AlbumsUpstream, MediaUpstream)

FailuresNext == photos_api_data_call \/ TickPhotosApi

\* weather-forecast: should_refresh_cache, "2 hours in seconds"
WEATHER_MAX_AGE == 7200

\* weather-forecast: should_refresh_cache, retry after an error
WEATHER_ERROR_RETRY == 300

\* failed fetches in a row in one run of the model
MaxErrorCount == 2

WeatherData == {"forecast1", "forecast2"}

\* the module global as main.py defines it
weather_cache_initial ==
    [data |-> <<>>, timestamp |-> 0, last_successful_fetch |-> 0, error_count |-> 0,
     last_error |-> "None"]

should_refresh_cache(wc, t) ==
    \/ wc.data = <<>>
    \/ t - wc.last_successful_fetch >= WEATHER_MAX_AGE
    \/ (wc.error_count > 0 /\ t - wc.timestamp >= WEATHER_ERROR_RETRY)

\* get_weather(): up is <<data>> when the request and the parsing succeed, <<>> when
\* anything raises; a failure returns the cached data, or {} (<<>>) without any
get_weather(wc, t, up) ==
    IF up # <<>>
    THEN [cache |-> [data |-> up, timestamp |-> t, last_successful_fetch |-> t,
                     error_count |-> 0, last_error |-> "None"],
          returned |-> up]
    ELSE [cache |-> [wc EXCEPT !.last_error = "Error fetching weather data",
                               !.error_count = wc.error_count + 1],
          returned |-> wc.data]

get_weather_data(wc, t, up) ==
    IF should_refresh_cache(wc, t)
    THEN LET got == get_weather(wc, t, up)
         IN  [cache |-> got.cache, returned |-> got.returned, fetched |-> TRUE,
              saved |-> (up # <<>>)]
    ELSE [cache |-> wc, returned |-> wc.data, fetched |-> FALSE, saved |-> FALSE]

\* api_data() -> get_weather_data(). Through the dispatcher main.py is executed anew
\* for the request (run.py do_GET, spec.loader.exec_module), so the handler sees the
\* module global as main.py defines it; a caller holding the module sees it as left.
weather_get_weather_data_as(callers) ==
    /\ n_calls < MaxCalls
    /\ \E via_dispatcher \in callers, up \in {<<>>} \cup {<<d>> : d \in WeatherData} :
          LET wc == IF via_dispatcher THEN weather_cache_initial ELSE weather_cache
              r == get_weather_data(wc, now, up)
          IN  /\ r.cache.error_count <= MaxErrorCount
              /\ weather_cache' = r.cache
              /\ stored' = IF r.saved
                           THEN [stored EXCEPT !["weather-forecast"] = <<[at |-> now, value |-> r.returned]>>]
                           ELSE stored
              /\ cache_read' = [cache |-> "weather-forecast", op |-> "get_weather_data",
                                returned |-> r.returned, fetched |-> r.fetched,
                                cold |-> cold["weather-forecast"],
                                had |-> stored["weather-forecast"]]
    /\ cold' = [cold EXCEPT !["weather-forecast"] = FALSE]
    /\ api_reply' = NoReply
    /\ n_calls' = n_calls + 1
    /\ UNCHANGED <<now, ticks, photos_cache_file, selected_photos_file, nature_cache_file,
                   error_state_file, n_failures>>
    /\ UNCHANGED ldVars
    /\ UNCHANGED srvVars

\* either caller
weather_get_weather_data == weather_get_weather_data_as(BOOLEAN)

\* a caller that imported main.py once and keeps the module (backend/app.py)
weather_get_weather_data_imported == weather_get_weather_data_as({FALSE})

\* GET /api/plugins/weather-forecast/data through run.py's do_GET
weather_api_data_dispatched == weather_get_weather_data_as({TRUE})

ThrottleSteps == {1, WEATHER_ERROR_RETRY, WEATHER_MAX_AGE}

TickThrottle == Tick(ThrottleSteps)

ThrottleNext == weather_get_weather_data_imported \/ TickThrottle

DispatchedWeatherNext == weather_api_data_dispatched \/ TickThrottle

\* random-nature-photos: config.get('unsplash', {}).get('refreshInterval', 3600)
NATURE_REFRESH_INTERVAL == 3600

\* random-nature-photos: slideshow_config.get('displayDuration', 15)
NATURE_DISPLAY_DURATION == 15

\* photo batches get_unsplash_photos can deliver
NatureBatches == {<<"nature1", "nature2">>, <<"nature3", "nature4">>}

\* load_cache(): the file's contents, no expiry check; a default dict without a file
nature_load_cache(file) ==
    IF file # <<>> THEN file[1]
    ELSE [photos |-> <<>>, last_updated |-> 0, current_index |-> 0, last_photo_change |-> 0]

should_refresh_photos(cache_data, t) ==
    \/ cache_data.photos = <<>>
    \/ t - cache_data.last_updated > NATURE_REFRESH_INTERVAL

\* get_current_photo(config) at time t; up is the batch get_unsplash_photos returns,
\* <<>> when it returns nothing or raises
get_current_photo(file, t, up) ==
    LET cache_data == nature_load_cache(file)
        refresh == should_refresh_photos(cache_data, t)
        renewed == refresh /\ up # <<>>
        current == IF renewed
                   THEN [photos |-> up, last_updated |-> t, current_index |-> 0,
                         last_photo_change |-> 0]
                   ELSE cache_data
        after_refresh == IF renewed THEN <<current>> ELSE file
        advance == t - current.last_photo_change >= NATURE_DISPLAY_DURATION
        next_index == (current.current_index + 1) % Len(current.photos)
        index == IF advance THEN next_index ELSE current.current_index
    IN  IF current.photos = <<>>
        THEN [returned |-> <<>>, fetched |-> refresh, saved |-> FALSE, file |-> after_refresh]
        ELSE [returned |-> <<[photo |-> current.photos[index + 1],
                              current_index |-> index + 1,
                              total_photos |-> Len(current.photos),
                              next_refresh |-> current.last_updated + NATURE_REFRESH_INTERVAL,
                              time_remaining |-> NATURE_DISPLAY_DURATION
                                                    - (t - current.last_photo_change)]>>,
              fetched |-> refresh,
              saved |-> renewed,
              file |-> IF advance
                       THEN <<[current EXCEPT !.current_index = next_index,
                                              !.last_photo_change = t]>>
                       ELSE after_refresh]

nature_get_current_photo ==
    /\ n_calls < MaxCalls
    /\ \E up \in {<<>>} \cup NatureBatches :
          LET r == get_current_photo(nature_cache_file, now, up)
          IN  /\ nature_cache_file' = r.file
              /\ stored' = IF r.saved
                           THEN [stored EXCEPT !["random-nature-photos"] = <<[at |-> now, value |-> up]>>]
                           ELSE stored
              /\ cache_read' = [cache |-> "random-nature-photos", op |-> "get_current_photo",
                                returned |-> r.returned, fetched |-> r.fetched,
                                cold |-> cold["random-nature-photos"],
                                had |-> stored["random-nature-photos"]]
    /\ cold' = [cold EXCEPT !["random-nature-photos"] = FALSE]
    /\ api_reply' = NoReply
    /\ n_calls' = n_calls + 1
    /\ UNCHANGED <<now, ticks, photos_cache_file, selected_photos_file, weather_cache,
                   error_state_file, n_failures>>
    /\ UNCHANGED ldVars
    /\ UNCHANGED srvVars

\* the process is stopped and started again: files stay, module globals start over
process_restart ==
    /\ weather_cache' = weather_cache_initial
    /\ cold' = [c \in PluginCaches |-> TRUE]
    /\ cache_read' = NoRead
    /\ api_reply' = NoReply
    /\ UNCHANGED <<now, ticks, n_calls, photos_cache_file, selected_photos_file,
                   nature_cache_file, error_state_file, stored, n_failures>>
    /\ UNCHANGED ldVars
    /\ UNCHANGED srvVars

RestartSteps == {1, NATURE_REFRESH_INTERVAL, WEATHER_MAX_AGE}

TickRestart == Tick(RestartSteps)

photos_list_albums_call == photos_list_albums(AlbumsReturned \cup {AlbumsNoSession, AlbumsRaises})

RestartNext ==
    \/ photos_list_albums_call
    \/ weather_get_weather_data
    \/ nature_get_current_photo
    \/ process_restart
    \/ TickRestart

\* what each plugin owns: google-photos/cache/photos_cache.json and error_state.json
\* (with the skip decision taken from it), google-picker/cache/selected_photos.json,
\* the weather-forecast module global (with its refresh decision),
\* random-nature-photos' photo_cache.json
OwnPhotos == <<photos_cache_file, error_state_file, should_skip_due_to_errors(error_state_file, now)>>

OwnPicker == <<selected_photos_file>>

OwnWeather == <<weather_cache, should_refresh_cache(weather_cache, now)>>

OwnNature == <<nature_cache_file>>

OwnershipSteps == {MAX_REFRESH_INTERVAL}

MaxOwnershipTicks == 1

\* the backoff interval passes, once
TickOwnership == ticks < MaxOwnershipTicks /\ Tick(OwnershipSteps)

\* the plugins at work side by side, the Photos API failing with HTTP 429 at will
OwnershipNext ==
    \/ photos_api_data_429
    \/ picker_save_selected_photos
    \/ weather_get_weather_data
    \/ TickOwnership

(***************************************************************************)
(* google-picker: api_start_import, api_poll_import and _import_sessions   *)
(***************************************************************************)

\* ids the Picker API hands out for new sessions
SessionIds == {"s1", "s2", "s3", "s4"}

\* what the Picker and Library APIs do for api_poll_import once the session is known
PollUpstream == {"no_service", "waiting", "completed", "add_error", "http_error"}

importFrame == <<ld_profile, ld_listing, ld_i, ld_plugins, ld_pc, configuring, workers>>

\* _import_sessions as the handler sees it: through the dispatcher main.py is executed
\* anew for the request (line 124 runs again), a kept module has what it was left with
import_sessions_seen(via_dispatcher) ==
    IF via_dispatcher THEN {} ELSE import_sessions.module

\* _import_sessions of the kept module after the handler: the module the dispatcher
\* made for the request is dropped with whatever the handler put into it
import_sessions_left(via_dispatcher, after) ==
    IF via_dispatcher THEN import_sessions.module ELSE after

\* api_start_import(query): query is <<>> without albumId; created is <<>> when
\* _create_picker_session returns an error, else <<id>>
api_start_import(query, created, via_dispatcher) ==
    IF query = <<>>
    THEN [module |-> import_sessions.module, started |-> import_sessions.started,
          reply |-> <<[op |-> "start_import", via_dispatcher |-> via_dispatcher,
                       sessionId |-> "none", pending |-> FALSE,
                       answer |-> "albumId parameter required"]>>]
    ELSE IF created = <<>>
    THEN [module |-> import_sessions.module, started |-> import_sessions.started,
          reply |-> <<[op |-> "start_import", via_dispatcher |-> via_dispatcher,
                       sessionId |-> "none", pending |-> FALSE,
                       answer |-> "Failed to create session"]>>]
    ELSE [module |-> import_sessions_left(via_dispatcher,
                         import_sessions_seen(via_dispatcher) \cup {created[1]}),
          started |-> IF via_dispatcher
                      THEN import_sessions.started \cup {created[1]}
                      ELSE import_sessions.started,
          reply |-> <<[op |-> "start_import", via_dispatcher |-> via_dispatcher,
                       sessionId |-> created[1], pending |-> FALSE,
                       answer |-> "sessionId"]>>]

\* the answer of api_poll_import for a session found in _import_sessions
poll_answer(up) ==
    CASE up = "no_service" -> "No picker service"
      [] up = "waiting" -> "waiting"
      [] up = "completed" -> "completed"
      [] up = "add_error" -> "add_media_items_to_album error"
      [] OTHER -> "HttpError"

\* api_poll_import(query): query is <<>> without sessionId, else <<id>>
api_poll_import(query, up, via_dispatcher) ==
    IF query = <<>>
    THEN [module |-> import_sessions.module, started |-> import_sessions.started,
          reply |-> <<[op |-> "poll_import", via_dispatcher |-> via_dispatcher,
                       sessionId |-> "none", pending |-> FALSE,
                       answer |-> "sessionId is required"]>>]
    ELSE IF query[1] \notin import_sessions_seen(via_dispatcher)
    THEN [module |-> import_sessions.module, started |-> import_sessions.started,
          reply |-> <<[op |-> "poll_import", via_dispatcher |-> via_dispatcher,
                       sessionId |-> query[1],
                       pending |-> query[1] \in import_sessions.started,
                       answer |-> "Unknown sessionId"]>>]
    ELSE [module |-> IF up = "completed"
                     THEN import_sessions_left(via_dispatcher,
                              import_sessions_seen(via_dispatcher) \ {query[1]})
                     ELSE import_sessions.module,
          started |-> IF up = "completed"
                      THEN import_sessions.started \ {query[1]}
                      ELSE import_sessions.started,
          reply |-> <<[op |-> "poll_import", via_dispatcher |-> via_dispatcher,
                       sessionId |-> query[1],
                       pending |-> query[1] \in import_sessions.started,
                       answer |-> poll_answer(up)]>>]

\* GET /api/plugins/google-picker/start_import through run.py's do_GET; the Picker
\* API never hands out the same session id twice
picker_api_start_import ==
    /\ \E query \in {<<>>, <<"albumId">>},
          created \in {<<>>} \cup {<<s>> : s \in SessionIds \ import_sessions.started} :
          import_sessions' = api_start_import(query, created, TRUE)
    /\ UNCHANGED importFrame
    /\ UNCHANGED srvVars
    /\ UNCHANGED plugVars

\* GET /api/plugins/google-picker/poll_import through run.py's do_GET
picker_api_poll_import ==
    /\ \E query \in {<<>>} \cup {<<s>> : s \in SessionIds}, up \in PollUpstream :
          import_sessions' = api_poll_import(query, up, TRUE)
    /\ UNCHANGED importFrame
    /\ UNCHANGED srvVars
    /\ UNCHANGED plugVars

ImportNext == picker_api_start_import \/ picker_api_poll_import

(***************************************************************************)
(* Specifications                                                          *)
(***************************************************************************)

InitLoader == LoaderInit /\ DispatchIdle /\ PluginsInit

InitDispatch == DispatchInit /\ LoaderIdle /\ PluginsInit

InitPlugins == PluginsInit /\ LoaderIdle /\ DispatchIdle

SpecLoader == InitLoader /\ [][LoaderNext]_vars

SpecDispatch == InitDispatch /\ [][DispatchNext]_vars

SpecCache == InitPlugins /\ [][CacheNext]_vars

SpecBackoff == InitPlugins /\ [][BackoffNext]_vars

SpecRestart == InitPlugins /\ [][RestartNext]_vars

SpecImport == InitPlugins /\ [][ImportNext]_vars

SpecThrottle == InitPlugins /\ [][ThrottleNext]_vars

SpecDispatchedWeather == InitPlugins /\ [][DispatchedWeatherNext]_vars

SpecPhotosApi == InitPlugins /\ [][PhotosApiNext]_vars

SpecOwnership == InitPlugins /\ [][OwnershipNext]_vars

SpecReload == InitDispatch /\ [][ReloadNext]_vars

InitLiveFiles == LiveFilesInit /\ LoaderIdle /\ PluginsInit

SpecLiveFiles == InitLiveFiles /\ [][LiveFilesNext]_vars

SpecFailures == InitPlugins /\ [][FailuresNext]_vars

SpecOverlap == InitPlugins /\ [][OverlapNext]_vars

InitConfigure == ConfigureInit /\ LoaderIdle /\ PluginsInit

SpecConfigure == InitConfigure /\ [][ConfigureNext]_vars

(***************************************************************************)
(* Properties                                                              *)
(***************************************************************************)

\* ---- loader -----------------------------------------------------------

\* a directory entry that is an enabled plugin candidate and is not broken
LoaderHealthy(p) ==
    /\ p.is_dir /\ ~p.hidden /\ p.enabled
    /\ p.has_init /\ p.exec_ok
    /\ (p.has_setup => ~p.setup_raises)

LoaderBroken(p) ==
    p.is_dir /\ ~p.hidden /\ p.enabled /\ ~LoaderHealthy(p)

LoaderVisited == {ld_listing[k] : k \in 1..(ld_i - 1)}

\* C1: load isolation. Whatever entries are broken and wherever they stand in the scan
\* order, the plugins loaded so far are exactly the healthy enabled entries visited so
\* far, each once; load_plugins returns only after visiting every entry, and then the
\* list holds exactly the healthy enabled plugins.
C1_LoadIsolation ==
    /\ Range(ld_plugins) = {n \in LoaderVisited : LoaderHealthy(ld_profile[n])}
    /\ Len(ld_plugins) = Cardinality(Range(ld_plugins))
    /\ ld_pc = "returned" =>
          /\ ld_i > Len(ld_listing)
          /\ Range(ld_plugins) = {n \in Range(ld_listing) : LoaderHealthy(ld_profile[n])}

\* a load that returned a healthy plugin scanned between a plugin whose setup raised
\* and a plugin whose import failed
C1_Witness ==
    /\ ld_pc = "returned"
    /\ Len(ld_listing) = 3
    /\ ld_profile[ld_listing[1]].setup_raises /\ LoaderBroken(ld_profile[ld_listing[1]])
    /\ ld_listing[2] \in Range(ld_plugins)
    /\ ~ld_profile[ld_listing[3]].exec_ok /\ LoaderBroken(ld_profile[ld_listing[3]])

\* ---- dispatcher -------------------------------------------------------

\* the body of some execution of the handler raised
HandlerRaised ==
    \E i \in DOMAIN response.calls :
        response.calls[i].ran /\ response.calls[i].out.k = "raise"

\* no plugin unit at the requested name
NoPluginUnit(name) ==
    name \notin PluginNames \/ ~fs[name].dir \/ fs[name].main = "absent"

\* a plugin unit whose module loads and which defines no api_<endpoint>
HealthyWithoutHandler(name, endpoint) ==
    /\ name \in PluginNames /\ fs[name].dir /\ fs[name].main = "ok"
    /\ (endpoint \notin {"data", "day", "albums"} \/ fs[name].handlers[endpoint] = "none")

\* C2: a plugin that is not enabled, or whose init hook failed when the plugins were
\* loaded, never receives traffic: the request is answered 404 and no handler is called.
C2_DisabledOrFailedNotServed ==
    (/\ response.route = "api"
     /\ \/ response.plugin_name \notin enabledPlugins
        \/ /\ response.plugin_name \in DOMAIN plugins
           /\ plugins[response.plugin_name].init = "failed")
    => (response.statuses = <<404>> /\ response.calls = <<>>)

\* C3: an exception raised by the handler gives the single status 500 and the body
\* {"error": <message of an exception the handler raised>}.
C3_HandlerExceptionIs500 ==
    (response.route = "api" /\ HandlerRaised)
    => /\ response.statuses = <<500>>
       /\ \E i \in DOMAIN response.calls :
             /\ response.calls[i].ran /\ response.calls[i].out.k = "raise"
             /\ response.body = json_dumps(ErrorDict(response.calls[i].out.msg))

\* C4: a request for a name with no plugin unit, or for an endpoint a healthy plugin
\* does not define, is answered 404 with a JSON error body, and nothing is called.
C4_UnknownIsNotFound ==
    (/\ response.route = "api"
     /\ \/ NoPluginUnit(response.plugin_name)
        \/ HealthyWithoutHandler(response.plugin_name, response.endpoint))
    => /\ response.statuses = <<404>>
       /\ response.body = NotFoundBody(response.path)
       /\ response.calls = <<>>

\* both cases of C4 have been answered: here the undefined endpoint of a healthy plugin
C4_Witness ==
    /\ response.route = "api"
    /\ HealthyWithoutHandler(response.plugin_name, response.endpoint)
    /\ response.endpoint = "nope"
    /\ response.statuses = <<404>>

\* what the client of a dispatch observes (a 404 body quotes the request path)
Outcome(r) ==
    [plugin_name |-> r.plugin_name, endpoint |-> r.endpoint, kind |-> r.kind, calls |-> r.calls,
     result |-> r.result, statuses |-> r.statuses,
     body |-> IF r.statuses = <<404>> THEN <<"NotFound">> ELSE r.body]

\* C5: routing default. For every plugin name, the path without an endpoint and the
\* path with an empty endpoint give the outcome of the path .../data, whatever the
\* plugin unit, the query and the handler's behaviour; a request on such a path is
\* dispatched to endpoint "data".
C5_RoutingDefault ==
    /\ served = 0 =>
          \A p \in RequestNames \ {""}, q \in Queries, o1 \in Outcomes, o2 \in Outcomes :
              /\ Outcome(do_GET(PathOmitted(p), q, o1, o2, fs))
                    = Outcome(do_GET(PathFull(p, "data"), q, o1, o2, fs))
              /\ Outcome(do_GET(PathEmpty(p), q, o1, o2, fs))
                    = Outcome(do_GET(PathFull(p, "data"), q, o1, o2, fs))
    /\ \A p \in RequestNames \ {""} :
          response.path \in {PathOmitted(p), PathEmpty(p)} =>
              /\ response.route = "api"
              /\ response.plugin_name = p
              /\ response.endpoint = "data"

\* a request without endpoint that reached the plugin's api_data handler
C5_Witness ==
    /\ response.plugin_name \in PluginNames
    /\ response.path = PathOmitted(response.plugin_name)
    /\ response.kind = "zero"
    /\ response.statuses = <<200>>

\* C6: a handler declaring no parameter is called without arguments, a handler
\* declaring one parameter is called with the request's query; when that call
\* returns, its value is the dispatcher's result and no other call is made.
C6_BothSignatures ==
    (response.route = "api" /\ response.calls # <<>>)
    => LET c == response.calls[1] IN
       /\ response.kind = "zero" => c.args = NoArgs
       /\ response.kind \in {"one", "one_default"} => c.args = response.query
       /\ c.out.k = "return" =>
             /\ Len(response.calls) = 1
             /\ response.result = c.out.v
             /\ response.statuses[1] = 200

\* a one-parameter handler was called with a non-empty query and returned
C6_Witness ==
    /\ response.kind = "one"
    /\ response.query = "{day: [3]}"
    /\ response.calls[1].out = Ret(RV_media)
    /\ response.result = RV_media

\* C7: when the handler returns, the status is 200 and the body is the JSON encoding
\* of the returned value; 404 only for an unknown plugin or endpoint; 500 only for a
\* handler exception.
C7_StatusContract ==
    response.route = "api" =>
       /\ (response.calls # <<>> /\ response.calls[Len(response.calls)].out.k = "return")
             => /\ response.statuses = <<200>>
                /\ response.body = json_dumps(response.calls[Len(response.calls)].out.v)
       /\ (\E i \in DOMAIN response.statuses : response.statuses[i] = 404)
             => \/ NoPluginUnit(response.plugin_name)
                \/ HealthyWithoutHandler(response.plugin_name, response.endpoint)
       /\ (\E i \in DOMAIN response.statuses : response.statuses[i] = 500)
             => HandlerRaised

\* ---- caches ------------------------------------------------------------

\* the expiry of each of the two expiring file caches
CacheTTL(c) == IF c = "google-photos" THEN PHOTOS_CACHE_EXPIRY ELSE PICKER_CACHE_EXPIRY

\* what a read handed back: <<>> for absent (None, or the picker's []), else <<value>>
ReadValue(r) ==
    IF r.returned = <<>> THEN <<>>
    ELSE IF r.cache = "google-photos" THEN <<r.returned[1].albums>>
    ELSE <<r.returned>>

\* C8: cache freshness. For an entry written at time t with expiry d, a read before
\* t + d returns the stored value, a read after t + d returns absent, and no read
\* ever returns a value whose write time plus expiry is earlier than now.
C8_CacheFreshness ==
    \A c \in {"google-photos", "google-picker"} :
        (cache_read.cache = c /\ cache_read.op \in {"load_cache", "load_selected_photos"})
        => IF stored[c] = <<>>
           THEN ReadValue(cache_read) = <<>>
           ELSE LET t == stored[c][1].at
                    d == CacheTTL(c)
                IN  /\ now < t + d => ReadValue(cache_read) = <<stored[c][1].value>>
                    /\ now > t + d => ReadValue(cache_read) = <<>>
                    /\ ReadValue(cache_read) # <<>>
                          => (ReadValue(cache_read) = <<stored[c][1].value>> /\ ~(t + d < now))

\* a read one second after the expiry of a stored selection came back absent
C8_Witness ==
    /\ cache_read.cache = "google-picker"
    /\ stored["google-picker"] # <<>>
    /\ now = stored["google-picker"][1].at + PICKER_CACHE_EXPIRY + 1
    /\ ReadValue(cache_read) = <<>>

\* a value stored at time `at` in cache c has not expired at time t
StillFresh(c, at, t) ==
    IF c = "google-photos" THEN t - at < 7776000
    ELSE IF c = "weather-forecast" THEN t - at < 7200
    ELSE t - at <= 3600

\* the read handed back the value stored in cache c
ReturnsStored(c, r, value) ==
    IF c = "random-nature-photos"
    THEN r.returned # <<>> /\ r.returned[1].photo \in Range(value)
    ELSE r.returned = value

\* the first read of cache c since a process restart, of a value stored before it
ColdRead(c) ==
    /\ cache_read.cache = c
    /\ cache_read.op \in {"list_albums", "get_weather_data", "get_current_photo"}
    /\ cache_read.cold
    /\ cache_read.had # <<>>
    /\ StillFresh(c, cache_read.had[1].at, now)

\* C9: cache state is durable. For every plugin cache, a value stored and still fresh
\* before a process restart is returned by the first read after the restart, and that
\* read performs no upstream fetch.
C9_CacheDurable ==
    \A c \in {"google-photos", "weather-forecast", "random-nature-photos"} :
        ColdRead(c) => (~cache_read.fetched /\ ReturnsStored(c, cache_read, cache_read.had[1].value))

\* ---- backoff -----------------------------------------------------------

\* C10: backoff growth. After n >= 1 consecutive record_api_error calls from a clean
\* error state consecutive_errors = n and current_interval = min(300 * 2^n, 3600),
\* also for n above 10; the interval never exceeds 3600 and a further failure
\* never makes it smaller.
C10_BackoffGrowth ==
    /\ [](n_failures >= 1
            => /\ error_state_file # <<>>
               /\ error_state_file[1].consecutive_errors = n_failures
               /\ error_state_file[1].current_interval = Min(300 * (2 ^ n_failures), 3600)
               /\ error_state_file[1].current_interval <= 3600)
    /\ [][(n_failures >= 1 /\ n_failures' = n_failures + 1)
            => error_state_file'[1].current_interval >= error_state_file[1].current_interval]_vars

\* eleven failures in a row: past the ceiling of 10, the interval is still 3600
C10_Witness ==
    /\ n_failures = 11
    /\ error_state_file # <<>>
    /\ error_state_file[1].consecutive_errors = 11
    /\ error_state_file[1].current_interval = 3600

\* C11: backoff reset. After any number of failures one record_api_success (also the
\* one api_reset_errors makes) leaves consecutive_errors = 0 and current_interval = 300,
\* and should_skip_due_to_errors evaluated right afterwards is false.
C11_BackoffReset ==
    [][(record_api_success \/ api_reset_errors)
        => /\ error_state_file' # <<>>
           /\ error_state_file'[1].consecutive_errors = 0
           /\ error_state_file'[1].current_interval = 300
           /\ ~should_skip_due_to_errors(error_state_file', now')]_vars

\* a reset made after eleven failures in a row
C11_Witness ==
    /\ api_reply.op = "api_reset_errors"
    /\ api_reply.before[1].consecutive_errors = 11
    /\ error_state_file[1].consecutive_errors = 0
    /\ error_state_file[1].current_interval = 300
    /\ ~should_skip_due_to_errors(error_state_file, now)

\* C12: error state invariant. In every state reached through record_api_success,
\* record_api_error and api_reset_errors, consecutive_errors is 0 exactly when
\* current_interval is the base interval of 300 seconds.
C12_ErrorStateInvariant ==
    (load_error_state(error_state_file).consecutive_errors = 0)
        <=> (load_error_state(error_state_file).current_interval = 300)

\* one failure after a reset: the count is 1 and the interval has left the base value
C12_Witness ==
    /\ error_state_file # <<>>
    /\ n_failures = 1
    /\ error_state_file[1].consecutive_errors = 1
    /\ error_state_file[1].current_interval = 600
    /\ error_state_file[1].last_error_time > StartTime

\* C13: skip semantics. should_skip_due_to_errors returns true exactly when
\* consecutive_errors >= 1 and now - last_error_time < current_interval; so it is
\* true right after a single failure, until the interval has elapsed.
C13_SkipSemantics ==
    api_reply.op = "should_skip_due_to_errors"
    => LET error_state == api_reply.before[1]
       IN  api_reply.skipped
              <=> (error_state.consecutive_errors >= 1
                   /\ now - error_state.last_error_time < error_state.current_interval)

\* C14: skip expiry. After any number of failures, once now - last_error_time has
\* reached current_interval, should_skip_due_to_errors returns false again.
C14_SkipExpiry ==
    (/\ api_reply.op = "should_skip_due_to_errors"
     /\ api_reply.before[1].consecutive_errors >= 1
     /\ now - api_reply.before[1].last_error_time >= api_reply.before[1].current_interval)
    => ~api_reply.skipped

\* ten failures, then exactly the interval of 3600 seconds later: not skipped
C14_Witness ==
    /\ api_reply.op = "should_skip_due_to_errors"
    /\ api_reply.before[1].consecutive_errors >= 10
    /\ now - api_reply.before[1].last_error_time = api_reply.before[1].current_interval
    /\ ~api_reply.skipped

\* C15: once the upstream has answered HTTP 429 on five calls in a row from a clean
\* error state, a request made while the backoff interval has not elapsed is told to
\* skip and makes no upstream attempt.
C15_QuotaBackoff ==
    (/\ api_reply.op = "api_data"
     /\ api_reply.before[1].consecutive_errors >= 5
     /\ api_reply.before[1].last_error_type = "quota_exceeded"
     /\ now - api_reply.before[1].last_error_time < api_reply.before[1].current_interval)
    => (api_reply.skipped /\ api_reply.attempts = 0)

\* C16: a caller told to skip does not raise, answers with an explicit degraded
\* indicator rather than a success-shaped reply, and, when the plugin's cache holds a
\* value, returns that value with it.
C16_DegradedReply ==
    (api_reply.op = "api_data" /\ api_reply.skipped)
    => /\ ~api_reply.raised
       /\ api_reply.reply[1].kind = "error"
       /\ photos_cache_file # <<>> => api_reply.reply[1].media # <<>>

\* C17: a step of one plugin (a cache write, a recorded failure or success, a read
\* through its cache) leaves what every other plugin owns as it was: cache contents,
\* error state, and the skip and refresh decisions taken from them.
C17_PluginOwnership ==
    [][/\ photos_api_data_429 => UNCHANGED <<OwnPicker, OwnWeather, OwnNature>>
       /\ picker_save_selected_photos => UNCHANGED <<OwnPhotos, OwnWeather, OwnNature>>
       /\ weather_get_weather_data => UNCHANGED <<OwnPhotos, OwnPicker, OwnNature>>]_vars

\* google-photos is in its outage (ten failures, told to skip) and weather-forecast
\* has just fetched and cached a forecast, with a picker selection on disk
C17_Witness ==
    /\ should_skip_due_to_errors(error_state_file, now)
    /\ load_error_state(error_state_file).consecutive_errors >= MAX_CONSECUTIVE_ERRORS
    /\ cache_read.cache = "weather-forecast"
    /\ cache_read.fetched
    /\ cache_read.returned # <<>>
    /\ weather_cache.error_count = 0
    /\ selected_photos_file # <<>>

\* C18: a request handled after a reload has completed uses the table that reload
\* built; the request in flight during the reload finishes with the table it started with.
C18_ReloadVisibility ==
    /\ (rendered.kind = "index" /\ rendered.newest # <<>>) => rendered.table = rendered.newest
    /\ rendered.kind = "callback" => rendered.table = <<main_plugins>> \/ rendered.table = rendered.newest

\* C19: every plugin table a request handler can read (its own self.plugins, the table
\* main() holds, self.server.plugins) is a complete table, one that load_plugins
\* returned, at every point of a reload.
C19_AtomicSwap ==
    /\ handler.plugins # <<>> => handler.plugins[1].entries = load_plugins(enabledPlugins, fs)
    /\ server_plugins # <<>> => server_plugins[1].entries = load_plugins(enabledPlugins, fs)
    /\ srv_pc # "boot" => main_plugins.entries = load_plugins(enabledPlugins, fs)

\* a reload is under way over a table already reloaded once: one plugin is in the
\* dict being filled, another has yet to be loaded
C19_Witness ==
    /\ handler.pc = "loading"
    /\ server_plugins # <<>>
    /\ DOMAIN handler.building # {}
    /\ \E plugin_name \in handler.todo : get_plugin_path(fs, plugin_name).dir
    /\ handler.building # load_plugins(enabledPlugins, fs)

\* C20: a plugin whose setup hook returns false without raising is not in the list of
\* loaded plugins, at any point of the load and after it.
C20_SetupFalseIsFailed ==
    \A item \in LoaderItems :
        (/\ ld_profile[item].has_setup
         /\ ~ld_profile[item].setup_raises
         /\ ld_profile[item].setup_returns = "False")
        => item \notin Range(ld_plugins)

\* C21: a plugin whose config.json is absent or does not parse is loaded all the same:
\* its init hook, when main.py has one, is called with the empty configuration, it is
\* in the table load_plugins returns, and so is every other enabled plugin that has a
\* directory.
C21_ConfigTolerance ==
    /\ \A n \in PluginNames :
          (configuring.pc # "idle" /\ configuring.init_calls[n] # <<>> /\ fs[n].config # "ok")
          => configuring.init_calls[n][1].config = "{}"
    /\ configuring.pc = "returned" =>
          /\ DOMAIN plugins = {n \in enabledPlugins : fs[n].dir}
          /\ \A n \in DOMAIN plugins :
                (fs[n].main = "ok" /\ fs[n].init # "none") => configuring.init_calls[n] # <<>>

\* both plugins are loaded and had init called with {}: one has no config.json, the
\* other one that does not parse
C21_Witness ==
    /\ configuring.pc = "returned"
    /\ DOMAIN plugins = PluginNames
    /\ \E n, m \in PluginNames :
          /\ fs[n].config = "unparsable" /\ fs[m].config = "absent"
          /\ configuring.init_calls[n] # <<>> /\ configuring.init_calls[n][1].config = "{}"
          /\ configuring.init_calls[m] # <<>> /\ configuring.init_calls[m][1].config = "{}"

\* C22: whenever load_plugins calls a plugin's init hook, the plugin's data directory
\* exists.
C22_DataDirBeforeInit ==
    \A n \in PluginNames :
        (configuring.pc # "idle" /\ configuring.init_calls[n] # <<>>)
        => configuring.init_calls[n][1].data_dir

\* C23: whenever no request is inside record_api_error, error_state.json holds what
\* the failures recorded so far give in some sequential order (every failure is
\* counted), and no request has read an empty document in place of a stored one.
C23_BenignRace ==
    /\ (\A w \in Workers : workers.req[w].pc = "idle")
       => load_error_state(error_state_file).consecutive_errors = n_failures
    /\ ~workers.read_empty

\* C24: an api_data call that is not told to skip and obtains no photos leaves
\* consecutive_errors one higher than it found it; one that returns photos leaves it 0.
C24_EveryFailureCounted ==
    (api_reply.op = "api_data" /\ ~api_reply.skipped)
    => /\ api_reply.reply[1].kind = "error"
          => load_error_state(error_state_file).consecutive_errors
                 = api_reply.before[1].consecutive_errors + 1
       /\ api_reply.reply[1].kind = "media"
          => load_error_state(error_state_file).consecutive_errors = 0

\* C25: a request reaches a handler only if main.py defined that handler when the
\* plugins were last loaded.
C25_DispatchableFixed ==
    (response.route = "api" /\ response.calls # <<>>)
    => <<response.plugin_name, response.endpoint>> \in discovered

\* C26: for a dispatched request the handler's body is executed at most once, also
\* when it raises TypeError or ValueError.
C26_HandlerInvokedOnce ==
    Cardinality({i \in DOMAIN response.calls : response.calls[i].ran}) <= 1

\* C27: a plugin API request gets exactly one response status, one of 200, 404, 500.
C27_OneStatus ==
    response.route = "api"
    => /\ Len(response.statuses) = 1
       /\ response.statuses[1] \in {200, 404, 500}

\* C28: after a failed weather fetch made while cached data is present, a request
\* that follows less than 300 s after that attempt makes no upstream fetch and is
\* answered with the cached data.
C28_RetryThrottle ==
    [][(/\ cache_read.cache = "weather-forecast"
        /\ cache_read.fetched
        /\ weather_cache.error_count > 0
        /\ weather_cache.data # <<>>
        /\ n_calls' = n_calls + 1
        /\ cache_read'.cache = "weather-forecast")
        => (/\ ~cache_read'.fetched
            /\ cache_read'.returned = weather_cache.data)]_vars

\* C29: a weather data request through the dispatcher made less than two hours
\* after a request that fetched successfully makes no upstream fetch.
C29_OneFetchInTwoHours ==
    (/\ cache_read.cache = "weather-forecast"
     /\ cache_read.had # <<>>
     /\ now - cache_read.had[1].at < WEATHER_MAX_AGE)
    => ~cache_read.fetched

\* C30: a poll_import request through the dispatcher that names a session which a
\* start_import request through the dispatcher handed out, and whose import has not
\* completed, is not answered 'Unknown sessionId'.
C30_SessionKnown ==
    (/\ import_sessions.reply # <<>>
     /\ import_sessions.reply[1].op = "poll_import"
     /\ import_sessions.reply[1].via_dispatcher
     /\ import_sessions.reply[1].pending)
    => import_sessions.reply[1].answer # "Unknown sessionId"

====
